---- MODULE Spec2Model ----
(***************************************************************************)
(* A model of vector_of_kll_sketches<float> (src/src/vector_of_kll.cpp):   *)
(* a container of d_ KLL sketches with bulk update, merge, collapse,       *)
(* selector-driven queries and per-index (de)serialization.                *)
(*                                                                         *)
(* The KLL engine (kll_sketch.hpp) is an external collaborator.  It is     *)
(* modelled in exact mode only: every sketch holds fewer items than its k, *)
(* so it retains all of them and answers from their sorted view.           *)
(***************************************************************************)
EXTENDS Integers, Sequences, FiniteSets, TLC

\* ------------------------------------------------------------------ bounds
\* Largest number of sketches d a container is constructed with.
MaxD == 2
\* Largest number of items the sketches of a container hold together (kept
\* below k: exact mode).
MaxN == 4

\* -------------------------------------------------------- program constants
DEFAULT_K == 200
DEFAULT_D == 1
\* The least k the KLL engine accepts.
MIN_K == 8

\* The item values fed to the sketches (floats that are small integers).
Values == {1, 2}

\* ------------------------------------------------------------ small helpers
RECURSIVE GCD(_, _)
GCD(a, b) == IF b = 0 THEN a ELSE GCD(b, a % b)

RECURSIVE IsPow2(_)
IsPow2(n) == IF n = 1 THEN TRUE ELSE IF n % 2 = 1 THEN FALSE ELSE IsPow2(n \div 2)

\* All sequences over S of length 0..n.
SeqsUpTo(S, n) == UNION {[1..m -> S] : m \in 0..n}

\* The number of elements of the sequence s that satisfy v <= x.
CountLE(s, x) == Cardinality({i \in 1..Len(s) : s[i] <= x})

\* ---------------------------------------------------------------- uint32_t
\* A uint32_t is kept as its two 16-bit halves, so that the value of
\* static_cast<uint32_t>(-2) = 4294967294 is representable.
static_cast_uint32(v) == [hi |-> (v \div 65536) % 65536, lo |-> v % 65536]

u32_less(a, b) == a.hi < b.hi \/ (a.hi = b.hi /\ a.lo < b.lo)

\* ------------------------------------------------------- double and float
\* The double nearest to the rational a/b.  prec = 0: a/b is a dyadic
\* rational with a short mantissa, exact in float and in double; otherwise
\* prec is the number of mantissa bits a/b has been rounded to.
Dbl(a, b) ==
  LET g == GCD(a, b)
  IN  [num |-> a \div g, den |-> b \div g,
       prec |-> IF IsPow2(b \div g) THEN 0 ELSE 53]

\* Storing a double into a float (std::vector<float>, std::vector<T>) rounds
\* it to 24 mantissa bits; widening it back to double changes nothing.
narrow_to_float(x) == IF x.prec = 0 THEN x ELSE [x EXCEPT !.prec = 24]

\* ------------------------------------------- the KLL engine (exact mode)
\* A sketch: its k and the items it retains, as their sorted view.
kll_sketch(k) == [k |-> k, items |-> <<>>]

\* kll_sketch's constructor throws on a k outside [MIN_K, 65535].
kll_k_ok(k) == MIN_K <= k /\ k <= 65535

kll_update(s, v) ==
  LET c == CountLE(s.items, v)
  IN  [s EXCEPT !.items = SubSeq(@, 1, c) \o <<v>> \o SubSeq(@, c + 1, Len(@))]

RECURSIVE kll_update_all(_, _)
kll_update_all(s, vs) ==
  IF vs = <<>> THEN s ELSE kll_update_all(kll_update(s, Head(vs)), Tail(vs))

\* this.merge(other): every item of other goes into this; other is read only.
kll_merge(s, o) == kll_update_all(s, o.items)

kll_get_n(s) == Len(s.items)
kll_is_empty(s) == Len(s.items) = 0
kll_get_num_retained(s) == Len(s.items)
kll_is_estimation_mode(s) == kll_get_n(s) > kll_get_num_retained(s)

\* A query on an empty sketch throws: ok = FALSE stands for the exception,
\* and v is then a filler nobody reads.
Thrown(filler) == [ok |-> FALSE, v |-> filler]
Returned(v) == [ok |-> TRUE, v |-> v]

kll_get_min_item(s) == IF kll_is_empty(s) THEN Thrown(0) ELSE Returned(s.items[1])
kll_get_max_item(s) ==
  IF kll_is_empty(s) THEN Thrown(0) ELSE Returned(s.items[Len(s.items)])

\* get_quantile(rank), inclusive: rank is the rational r[1]/r[2] in [0, 1];
\* the item at the first position whose cumulative weight is >= ceil(rank*n).
kll_get_quantile(s, r) ==
  IF kll_is_empty(s) THEN Thrown(0)
  ELSE LET n == Len(s.items)
           w == (r[1] * n + r[2] - 1) \div r[2]
       IN  Returned(s.items[IF w < 1 THEN 1 ELSE IF w > n THEN n ELSE w])

\* get_rank(value), inclusive: the share of the items that are <= value.
kll_get_rank(s, v) ==
  IF kll_is_empty(s) THEN Thrown(Dbl(0, 1))
  ELSE Returned(Dbl(CountLE(s.items, v), Len(s.items)))

\* Split points must be unique and increasing.
SplitsOk(sp) == \A i \in 1..Len(sp) - 1 : sp[i] < sp[i + 1]

\* get_CDF(split_points, size): size + 1 ranks, the last one 1.
kll_get_CDF(s, sp) ==
  IF kll_is_empty(s) \/ ~SplitsOk(sp) THEN Thrown(<<>>)
  ELSE Returned([j \in 1..Len(sp) + 1 |->
                   IF j <= Len(sp) THEN Dbl(CountLE(s.items, sp[j]), Len(s.items))
                   ELSE Dbl(1, 1)])

\* get_PMF(split_points, size): the masses of the size + 1 intervals.
kll_get_PMF(s, sp) ==
  IF kll_is_empty(s) \/ ~SplitsOk(sp) THEN Thrown(<<>>)
  ELSE LET n == Len(s.items)
           c(j) == IF j = 0 THEN 0
                   ELSE IF j <= Len(sp) THEN CountLE(s.items, sp[j]) ELSE n
       IN  Returned([j \in 1..Len(sp) + 1 |-> Dbl(c(j) - c(j - 1), n)])

\* to_string(print_levels, print_items): the summary, then the optional parts.
kll_to_string(s, print_levels, print_items) ==
  [summary |-> <<s.k, Len(s.items)>>,
   levels |-> IF print_levels THEN <<Len(s.items)>> ELSE <<>>,
   items |-> IF print_items THEN s.items ELSE <<>>]

\* serialize(): preamble, flags and k; then nothing (empty), the one item
\* (single item), or n, min, max and the retained items.
FLAG_EMPTY == 1
FLAG_SINGLE == 4
PREAMBLE_SHORT == 2
PREAMBLE_FULL == 5

kll_serialize(s) ==
  IF Len(s.items) = 0 THEN <<PREAMBLE_SHORT, FLAG_EMPTY, s.k>>
  ELSE IF Len(s.items) = 1 THEN <<PREAMBLE_SHORT, FLAG_SINGLE, s.k, s.items[1]>>
  ELSE <<PREAMBLE_FULL, 0, s.k, Len(s.items), s.items[1], s.items[Len(s.items)]>>
         \o s.items

\* deserialize(bytes, size): the sketch the bytes hold, or an exception
\* (ok = FALSE) when they are not a whole image of a sketch.
kll_deserialize(b, size) ==
  LET bad == [ok |-> FALSE, sk |-> kll_sketch(0)]
  IN  IF size < 3 \/ size > Len(b) THEN bad
      ELSE IF b[1] = PREAMBLE_SHORT /\ b[2] = FLAG_EMPTY /\ size = 3
        THEN [ok |-> TRUE, sk |-> kll_sketch(b[3])]
      ELSE IF b[1] = PREAMBLE_SHORT /\ b[2] = FLAG_SINGLE /\ size = 4
        THEN [ok |-> TRUE, sk |-> [k |-> b[3], items |-> <<b[4]>>]]
      ELSE IF b[1] = PREAMBLE_FULL /\ b[2] = 0 /\ size >= 6
        THEN IF size = 6 + b[4]
               THEN [ok |-> TRUE, sk |-> [k |-> b[3], items |-> SubSeq(b, 7, size)]]
               ELSE bad
      ELSE bad

\* ------------------------------------------------------ the array library
\* The output arrays (nb::ndarray, nb::list, nb::cast) are built by the array
\* library from the values the container has computed into its local
\* vectors: a fresh, caller-owned array holding those values.
ndarray(vals) == vals

\* ------------------------------------------------------------ the container
\* The container's sketches_ is a sequence; channel i is sketches[i + 1].

\* What an operation hands back: how it ended, and the sketches_ it leaves.
Threw(what, sk) == [status |-> what, sketches |-> sk]
Done(sk) == [status |-> "ok", sketches |-> sk]
\* What a const operation hands back: how it ended, and its return value.
Fails(what) == [status |-> what, out |-> <<>>]
Gives(v) == [status |-> "ok", out |-> v]
\* What an operation that assigns to no sketch hands back: its outcome r, and
\* sketches_ as it found them.
leaves_sketches(sk, r) == [status |-> r.status, out |-> r.out, sketches |-> sk]

\* vector_of_kll_sketches(k, d): d sketches of parameter k, all empty.
vector_of_kll_sketches(k, d) ==
  IF d < 1 THEN Threw("invalid_argument", <<>>)
  ELSE IF ~kll_k_ok(k) THEN Threw("invalid_argument", <<>>)
  ELSE Done([i \in 1..d |-> kll_sketch(k)])

\* vector_of_kll_sketches(other), the copy constructor: k_, d_ and a copy of
\* the sketches of other, which is left as it is.
vector_of_kll_sketches_copy(other) ==
  [k |-> other.k, d |-> other.d, sketches |-> other.sketches, other |-> other]

\* vector_of_kll_sketches(std::move(other)), the move constructor: k_ and d_
\* of other and the sketches themselves; other keeps its k_ and d_ and is
\* left with no sketches.
vector_of_kll_sketches_move(other) ==
  [k |-> other.k, d |-> other.d, sketches |-> other.sketches,
   other |-> [other EXCEPT !.sketches = <<>>]]

get_k(k) == k
get_d(d) == d

\* A faulty get_indices whose range check is idx <= d_: C5 tells it apart.
get_indices_upto_d(isk, d) ==
  IF Len(isk) = 1
    THEN IF isk[1] = -1
           THEN [ok |-> TRUE, inds |-> [i \in 1..d |-> static_cast_uint32(i - 1)]]
           ELSE [ok |-> TRUE, inds |-> <<static_cast_uint32(isk[1])>>]
    ELSE IF \A i \in 1..Len(isk) :
              \/ u32_less(static_cast_uint32(isk[i]), static_cast_uint32(d))
              \/ static_cast_uint32(isk[i]) = static_cast_uint32(d)
           THEN [ok |-> TRUE,
                 inds |-> [i \in 1..Len(isk) |-> static_cast_uint32(isk[i])]]
           ELSE [ok |-> FALSE, inds |-> <<>>]

\* get_indices(isk): the selector as a list of uint32_t indices, or the
\* exception (ok = FALSE, no indices).
get_indices(isk, d) ==
  IF Len(isk) = 1
    THEN IF isk[1] = -1
           THEN [ok |-> TRUE, inds |-> [i \in 1..d |-> static_cast_uint32(i - 1)]]
           ELSE [ok |-> TRUE, inds |-> <<static_cast_uint32(isk[1])>>]
    ELSE IF \A i \in 1..Len(isk) :
              u32_less(static_cast_uint32(isk[i]), static_cast_uint32(d))
           THEN [ok |-> TRUE,
                 inds |-> [i \in 1..Len(isk) |-> static_cast_uint32(isk[i])]]
           ELSE [ok |-> FALSE, inds |-> <<>>]

\* sketches_[u]: std::vector::operator[] does not check u.  Past the end the
\* read is undefined, and so is what the engine then does with the stray
\* object it is handed as a sketch.  The operation ends in one of four ways,
\* named by junk:
\*   "fault"         the process faults;
\*   "bad_alloc"     the engine ends in std::bad_alloc or
\*                   std::bad_array_new_length;
\*   "engine_error"  the engine rejects the object with an exception of its
\*                   own (merge: "incompatible M");
\*   "stray"         the operation returns normally, with a value computed
\*                   from the stray object.  That value is whatever the
\*                   memory past the end makes it (ranks of any size, an
\*                   image with any flag byte and any k): it is left
\*                   undetermined, and out is empty.
\* In every one of them sketches_ are left as they were.
InRange(sk, u) == u.hi = 0 /\ u.lo < Len(sk)
sketch_at(sk, u) == sk[u.lo + 1]
stray_read(junk) == Fails(junk)

\* The layout tag of an input array.  The overload is chosen by the static
\* type of the argument; update hands over a const nb::ndarray<T>&, which
\* picks the third overload whatever the layout of the array is.
check_order(items) == "?"

\* The calls sketches_[j].update(v) of the three loops of update, in the
\* order they are made, each as <<j, v>>.
calls_1d(items, d) == [p \in 1..d |-> <<p - 1, items.data[p]>>]

\* items(i, j) of a 2-D array: data holds the elements by logical index,
\* row after row, whatever the storage layout.
item_at(items, i, j) == items.data[i * items.shape[2] + j + 1]

\* A faulty column-major loop that stops one row short: C10 tells it apart.
calls_F_short(items, d) ==
  LET n == items.shape[1] - 1
  IN  [p \in 1..(d * n) |->
         LET j == (p - 1) \div n
             i == (p - 1) % n
         IN  <<j, item_at(items, i, j)>>]

calls_F(items, d) ==
  LET n == items.shape[1]
  IN  [p \in 1..(d * n) |->
         LET j == (p - 1) \div n
             i == (p - 1) % n
         IN  <<j, item_at(items, i, j)>>]

calls_C(items, d) ==
  LET n == items.shape[1]
  IN  [p \in 1..(n * d) |->
         LET i == (p - 1) \div d
             j == (p - 1) % d
         IN  <<j, item_at(items, i, j)>>]

RECURSIVE apply_updates(_, _)
apply_updates(sk, calls) ==
  IF calls = <<>> THEN sk
  ELSE apply_updates(
         [sk EXCEPT ![Head(calls)[1] + 1] = kll_update(@, Head(calls)[2])],
         Tail(calls))

\* update(items).  For ndim = 0, items.shape(ndim - 1) reads past the shape:
\* g is the extent that undefined read yields.  check_order never answers
\* 'F', so every 2-D array goes through the row-major loops.
update(sk, d, items, g) ==
  LET ndim == items.ndim
      last == IF ndim = 0 THEN g ELSE items.shape[ndim]
  IN  IF last # d THEN Threw("invalid_argument", sk)
      ELSE IF ndim = 1 THEN Done(apply_updates(sk, calls_1d(items, d)))
      ELSE IF ndim = 2
        THEN IF check_order(items) = "F"
               THEN Done(apply_updates(sk, calls_F(items, d)))
               ELSE Done(apply_updates(sk, calls_C(items, d)))
      ELSE Threw("invalid_argument", sk)

\* A faulty merge that merges the channels both containers have before it
\* rejects a width mismatch: C3 tells it apart.
merge_then_reject(sk, d, other) ==
  IF d # get_d(other.d)
    THEN [status |-> "invalid_argument",
          sketches |-> [i \in 1..d |->
                          IF i <= other.d THEN kll_merge(sk[i], other.sketches[i])
                          ELSE sk[i]],
          other |-> other.sketches]
    ELSE [status |-> "ok",
          sketches |-> [i \in 1..d |-> kll_merge(sk[i], other.sketches[i])],
          other |-> other.sketches]

\* merge(other): also hands back other's sketches as the call leaves them.
merge(sk, d, other) ==
  IF d # get_d(other.d)
    THEN [status |-> "invalid_argument", sketches |-> sk, other |-> other.sketches]
    ELSE [status |-> "ok",
          sketches |-> [i \in 1..d |-> kll_merge(sk[i], other.sketches[i])],
          other |-> other.sketches]

RECURSIVE merge_all(_, _)
merge_all(result, sks) ==
  IF sks = <<>> THEN result ELSE merge_all(kll_merge(result, Head(sks)), Tail(sks))

\* A faulty collapse whose loop stops one sketch short: C9 tells it apart.
collapse_short(sk, k, isk, junk) ==
  leaves_sketches(sk,
    IF Len(isk) - 1 > Len(sk) THEN stray_read(junk)
    ELSE Gives(merge_all(kll_sketch(k),
                 [idx \in 1..(Len(isk) - 1) |->
                    sketch_at(sk, static_cast_uint32(idx - 1))])))

\* A faulty collapse that gathers the merge in sketches_[0] instead of a
\* sketch of its own: C12 tells it apart.
collapse_in_place(sk, k, isk, junk) ==
  IF Len(isk) > Len(sk)
    THEN leaves_sketches(sk, stray_read(junk))
    ELSE LET result == merge_all(sk[1],
                         [idx \in 1..Len(isk) |->
                            sketch_at(sk, static_cast_uint32(idx - 1))])
         IN  [status |-> "ok", out |-> result,
              sketches |-> [sk EXCEPT ![1] = result]]

\* collapse(isk): a local result(k_) merged with sketches_[idx] for idx = 0 ..
\* inds.shape(0) - 1, and returned by value.  A selector longer than d has
\* the loop merge the stray objects past the end.
collapse(sk, k, isk, junk) ==
  leaves_sketches(sk,
    IF Len(isk) > Len(sk) THEN stray_read(junk)
    ELSE Gives(merge_all(kll_sketch(k),
                 [idx \in 1..Len(isk) |->
                    sketch_at(sk, static_cast_uint32(idx - 1))])))

\* array1d<V>(vals.data(), 1, shape) returned by a per-channel query: the
\* array points into vals, a vector local to the query and destroyed when
\* the query returns.  What the caller then reads is undefined: a fault, or
\* cell by cell the value computed (the storage has not been reused there)
\* or whatever has taken its place (seen.cells[i].v).
dangling_array(vals, seen) ==
  IF seen.how = "fault" THEN Fails("fault")
  ELSE Gives([i \in 1..Len(vals) |->
                IF seen.cells[i].kept THEN vals[i] ELSE seen.cells[i].v])

\* The per-channel queries: one entry per sketch, in channel order, computed
\* into vals and handed back as an array over vals.
is_empty(sk, seen) ==
  leaves_sketches(sk,
    dangling_array([i \in 1..Len(sk) |-> kll_is_empty(sk[i])], seen))
get_n(sk, seen) ==
  leaves_sketches(sk,
    dangling_array([i \in 1..Len(sk) |-> kll_get_n(sk[i])], seen))
get_num_retained(sk, seen) ==
  leaves_sketches(sk,
    dangling_array([i \in 1..Len(sk) |-> kll_get_num_retained(sk[i])], seen))
is_estimation_mode(sk, seen) ==
  leaves_sketches(sk,
    dangling_array([i \in 1..Len(sk) |-> kll_is_estimation_mode(sk[i])], seen))
get_min_values(sk, seen) ==
  leaves_sketches(sk,
    IF \E i \in 1..Len(sk) : ~kll_get_min_item(sk[i]).ok THEN Fails("engine_error")
    ELSE dangling_array([i \in 1..Len(sk) |-> kll_get_min_item(sk[i]).v], seen))
get_max_values(sk, seen) ==
  leaves_sketches(sk,
    IF \E i \in 1..Len(sk) : ~kll_get_max_item(sk[i]).ok THEN Fails("engine_error")
    ELSE dangling_array([i \in 1..Len(sk) |-> kll_get_max_item(sk[i]).v], seen))

\* to_string: the sketches' summaries in channel order, a "\n" before each
\* but the first.
to_string(sk, print_levels, print_items) ==
  leaves_sketches(sk,
    Gives([i \in 1..Len(sk) |->
             [sep |-> IF i > 1 THEN "\n" ELSE "",
              text |-> kll_to_string(sk[i], print_levels, print_items)]]))

\* Whether the loop over inds reads a sketch past the end.
reads_stray(sk, inds) == \E i \in 1..Len(inds) : ~InRange(sk, inds[i])

\* get_quantiles(ranks, isk): quants[i][j] = sketches_[inds[i]].get_quantile(ranks[j]).
get_quantiles(sk, d, ranks, isk, junk) ==
  leaves_sketches(sk,
    LET r == get_indices(isk, d)
        inds == r.inds
        cell(i, j) == kll_get_quantile(sketch_at(sk, inds[i]), ranks[j])
    IN  IF ~r.ok THEN Fails("invalid_argument")
        ELSE IF Len(ranks) > 0 /\ reads_stray(sk, inds) THEN stray_read(junk)
        ELSE IF \E i \in 1..Len(inds) : \E j \in 1..Len(ranks) : ~cell(i, j).ok
          THEN Fails("engine_error")
        ELSE Gives(ndarray([i \in 1..Len(inds) |->
                              [j \in 1..Len(ranks) |-> cell(i, j).v]])))

\* get_ranks(values, isk): ranks[i][j] = sketches_[inds[i]].get_rank(vals[j]),
\* held in a std::vector<std::vector<float>>.
get_ranks(sk, d, values, isk, junk) ==
  leaves_sketches(sk,
    LET r == get_indices(isk, d)
        inds == r.inds
        cell(i, j) == kll_get_rank(sketch_at(sk, inds[i]), values[j])
    IN  IF ~r.ok THEN Fails("invalid_argument")
        ELSE IF Len(values) > 0 /\ reads_stray(sk, inds) THEN stray_read(junk)
        ELSE IF \E i \in 1..Len(inds) : \E j \in 1..Len(values) : ~cell(i, j).ok
          THEN Fails("engine_error")
        ELSE Gives(ndarray([i \in 1..Len(inds) |->
                              [j \in 1..Len(values) |-> narrow_to_float(cell(i, j).v)]])))

\* get_pmf(split_points, isk): pmfs[i][j] = get_PMF(...)[j] for j = 0 ..
\* num_splits, held in a std::vector<std::vector<T>>, T = float.
get_pmf(sk, d, split_points, isk, junk) ==
  leaves_sketches(sk,
    LET r == get_indices(isk, d)
        inds == r.inds
        pmf(i) == kll_get_PMF(sketch_at(sk, inds[i]), split_points)
    IN  IF ~r.ok THEN Fails("invalid_argument")
        ELSE IF reads_stray(sk, inds) THEN stray_read(junk)
        ELSE IF \E i \in 1..Len(inds) : ~pmf(i).ok THEN Fails("engine_error")
        ELSE Gives(ndarray([i \in 1..Len(inds) |->
                              [j \in 1..Len(split_points) + 1 |->
                                 narrow_to_float(pmf(i).v[j])]])))

\* get_cdf(split_points, isk): as get_pmf, with get_CDF.
get_cdf(sk, d, split_points, isk, junk) ==
  leaves_sketches(sk,
    LET r == get_indices(isk, d)
        inds == r.inds
        cdf(i) == kll_get_CDF(sketch_at(sk, inds[i]), split_points)
    IN  IF ~r.ok THEN Fails("invalid_argument")
        ELSE IF reads_stray(sk, inds) THEN stray_read(junk)
        ELSE IF \E i \in 1..Len(inds) : ~cdf(i).ok THEN Fails("engine_error")
        ELSE Gives(ndarray([i \in 1..Len(inds) |->
                              [j \in 1..Len(split_points) + 1 |->
                                 narrow_to_float(cdf(i).v[j])]])))

\* serialize(isk): one blob per index, in the order of the indices.
serialize(sk, d, isk, junk) ==
  leaves_sketches(sk,
    LET r == get_indices(isk, d)
        inds == r.inds
    IN  IF ~r.ok THEN Fails("invalid_argument")
        ELSE IF reads_stray(sk, inds) THEN stray_read(junk)
        ELSE Gives(ndarray([i \in 1..Len(inds) |->
                              kll_serialize(sketch_at(sk, inds[i]))])))

\* skStr.length(), the size handed to the engine with the bytes.  skStr is
\* declared nowhere in the source; the size is taken to be what the
\* specification has deserialize do, read the sketch from bytes: the length
\* of sk_bytes.
skStr_length(sk_bytes) == Len(sk_bytes)

\* A faulty deserialize that always loads into sketches_[0]: C8 tells it
\* apart.
deserialize_first(sk, d, sk_bytes, idx) ==
  IF idx >= d THEN Threw("invalid_argument", sk)
  ELSE LET r == kll_deserialize(sk_bytes, skStr_length(sk_bytes))
       IN  IF ~r.ok THEN Threw("engine_error", sk)
           ELSE Done([sk EXCEPT ![1] = r.sk])

\* deserialize(sk_bytes, idx): replaces sketches_[idx] by the sketch the
\* engine reads from the bytes.
deserialize(sk, d, sk_bytes, idx) ==
  IF idx >= d THEN Threw("invalid_argument", sk)
  ELSE LET r == kll_deserialize(sk_bytes, skStr_length(sk_bytes))
       IN  IF ~r.ok THEN Threw("engine_error", sk)
           ELSE Done([sk EXCEPT ![idx + 1] = r.sk])

\* ------------------------------------------------------------------- inputs
\* The k a container is constructed with; 0 is a k the engine rejects.
Ks == {DEFAULT_K, 0}

\* The selectors isk handed to the index-accepting operations: every integer
\* sequence of length 0 or 1 over -2..MaxD, every pair over -1..MaxD, and the
\* explicit list of all channels of each width.
Selectors ==
  SeqsUpTo(-2..MaxD, 1) \cup [1..2 -> -1..MaxD]
    \cup {[i \in 1..n |-> i - 1] : n \in 1..MaxD}

\* The explicit list of all channels of each width.
FullLists == {[i \in 1..n |-> i - 1] : n \in 1..MaxD}

\* Query points.  A rank is the rational <<numerator, denominator>>.
RankVecs == {<< <<1, 1>>, <<1, 2>>, <<0, 1>> >>}
ValueVecs == {<<2, 1>>}
SplitVecs == {<<1, 2>>}

\* The input arrays of update for a container of width d with room for
\* `room` more items: every array whose last extent is d and that fits, and
\* a few arrays of each shape update rejects.
Array(ndim, shape, data, order) ==
  [ndim |-> ndim, shape |-> shape, data |-> data, order |-> order]

Items1D(c) == {Array(1, <<c>>, data, "C") : data \in [1..c -> Values]}
Items2D(n, c) ==
  {Array(2, <<n, c>>, data, order) :
     data \in [1..(n * c) -> Values], order \in {"C", "F", "?"}}

Items(d, room) ==
  UNION {Items1D(c) : c \in {c \in 1..MaxD : c # d \/ d <= room}}
    \cup UNION {Items2D(n, d) : n \in {n \in 0..MaxN : n * d <= room}}
    \cup UNION {Items2D(1, c) : c \in (1..MaxD) \ {d}}
    \cup {Array(3, <<1, 1, c>>, <<>>, "C") : c \in 1..MaxD}
    \cup {Array(0, <<>>, <<>>, "C")}

\* What items.shape(ndim - 1) may yield for ndim = 0.
Extents(items) == IF items.ndim = 0 THEN 0..MaxD ELSE {0}

\* The containers handed to merge: any width, each sketch holding at most one
\* item.
Others(k) ==
  UNION {[k : {k}, d : {c},
          sketches : [1..c -> {kll_update_all(kll_sketch(k), vs) :
                                 vs \in SeqsUpTo(Values, 1)}]] : c \in 1..MaxD}

\* The byte strings handed to deserialize: images of a few sketches, and one
\* cut short.
Blobs(k) ==
  {kll_serialize(kll_update_all(kll_sketch(k), vs)) :
     vs \in {<<>>, <<2>>, <<1, 2>>, <<1, 1, 2>>}} \cup {<<PREAMBLE_FULL, 0, k>>}

\* How an operation that reads past the end of sketches_ may end.  The
\* engine's serialize throws no exception of its own.
Junks(op) ==
  {"fault", "bad_alloc", "stray"}
    \cup (IF op = "serialize" THEN {} ELSE {"engine_error"})

\* What the caller of a per-channel query may find in the array it is
\* handed: a fault, or d cells, each of which either still holds the value
\* computed into it or holds one of the given stray values.
\* (The v of a kept cell is not read: one stands for all.)
Seen(d, stray) ==
  LET kept == [kept |-> TRUE, v |-> CHOOSE c \in stray : TRUE]
  IN  {[how |-> "fault", cells |-> <<>>]}
        \cup [how : {"read"},
              cells : [1..d -> {kept} \cup {[kept |-> FALSE, v |-> c] : c \in stray}]]

\* Stray contents of a cell of flags (a byte that is not zero reads as
\* TRUE), and of a cell of numbers.
StrayFlags == BOOLEAN
StrayNumbers == {0, 77}

\* -------------------------------------------------------------------- state
VARIABLES
  live,       \* whether the container has been constructed
  k_,         \* its k_
  d_,         \* its d_
  sketches_,  \* its sketches_
  ret,        \* the last call: operation, arguments, how it ended, result,
              \* and the sketches_ it started from
  saved,      \* a blob the caller keeps: serialize({i})[0], with i and the
              \* sketch it was taken from
  collapsed   \* a sketch the caller keeps: what a collapse returned

vars == <<live, k_, d_, sketches_, ret, saved, collapsed>>

Call(op, status, isk, arg, out, pre) ==
  [op |-> op, status |-> status, isk |-> isk, arg |-> arg, out |-> out,
   pre |-> pre]

NoBlob == [held |-> FALSE, i |-> 0, bytes |-> <<>>, at |-> kll_sketch(0)]
NoSketch == [held |-> FALSE, sk |-> kll_sketch(0)]

Init ==
  /\ live = FALSE
  /\ k_ = 0
  /\ d_ = 0
  /\ sketches_ = <<>>
  /\ ret = Call("none", "ok", <<>>, <<>>, <<>>, <<>>)
  /\ saved = NoBlob
  /\ collapsed = NoSketch

\* The number of items the sketches hold together.
RECURSIVE Total(_)
Total(sk) == IF sk = <<>> THEN 0 ELSE Len(Head(sk).items) + Total(Tail(sk))

\* ------------------------------------------------------------------ actions
Construct(k, d) ==
  /\ ~live
  /\ LET r == vector_of_kll_sketches(k, d)
     IN  /\ live' = (r.status = "ok")
         /\ k_' = IF r.status = "ok" THEN k ELSE k_
         /\ d_' = IF r.status = "ok" THEN d ELSE d_
         /\ sketches_' = r.sketches
         /\ ret' = Call("construct", r.status, <<>>, <<k, d>>, <<>>, sketches_)
  /\ UNCHANGED <<saved, collapsed>>

\* The second __init__ of the binding: the container is built as a copy of
\* other.
CopyConstruct(other) ==
  /\ ~live
  /\ LET r == vector_of_kll_sketches_copy(other)
     IN  /\ live' = TRUE
         /\ k_' = r.k
         /\ d_' = r.d
         /\ sketches_' = r.sketches
         /\ ret' = Call("copy_construct", "ok", <<>>, other, r.other, sketches_)
  /\ UNCHANGED <<saved, collapsed>>

\* The container is built from other by the move constructor; ret.out is
\* the state other is left in.
MoveConstruct(other) ==
  /\ ~live
  /\ LET r == vector_of_kll_sketches_move(other)
     IN  /\ live' = TRUE
         /\ k_' = r.k
         /\ d_' = r.d
         /\ sketches_' = r.sketches
         /\ ret' = Call("move_construct", "ok", <<>>, other, r.other, sketches_)
  /\ UNCHANGED <<saved, collapsed>>

Update(items, g) ==
  /\ live
  /\ LET r == update(sketches_, d_, items, g)
     IN  /\ sketches_' = r.sketches
         /\ ret' = Call("update", r.status, <<>>, items, <<>>, sketches_)
  /\ UNCHANGED <<live, k_, d_, saved, collapsed>>

Merge(other) ==
  /\ live
  /\ other.d = d_ => Total(sketches_) + Total(other.sketches) <= MaxN
  /\ LET r == merge(sketches_, d_, other)
     IN  /\ sketches_' = r.sketches
         /\ ret' = Call("merge", r.status, <<>>, other, r.other, sketches_)
  /\ UNCHANGED <<live, k_, d_, saved, collapsed>>

Deserialize(sk_bytes, idx) ==
  /\ live
  /\ LET r == deserialize(sketches_, d_, sk_bytes, idx)
     IN  /\ Total(r.sketches) <= MaxN
         /\ sketches_' = r.sketches
         /\ ret' = Call("deserialize", r.status, <<>>, <<sk_bytes, idx>>, <<>>,
                        sketches_)
  /\ UNCHANGED <<live, k_, d_, saved, collapsed>>

\* A call of an operation that hands back a result: sketches_ become what
\* the operation leaves, the result is handed back.
Const(op, isk, arg, r) ==
  /\ live
  /\ sketches_' = r.sketches
  /\ ret' = Call(op, r.status, isk, arg, r.out, sketches_)
  /\ UNCHANGED <<live, k_, d_, saved, collapsed>>

\* get_indices is private: its result is seen through the operations that
\* call it.  This step applies it alone.
GetIndices(isk) ==
  LET r == get_indices(isk, d_)
  IN  Const("get_indices", isk, <<>>,
            leaves_sketches(sketches_,
              IF r.ok THEN Gives(r.inds) ELSE Fails("invalid_argument")))

Collapse(isk, junk) == Const("collapse", isk, <<>>, collapse(sketches_, k_, isk, junk))

GetQuantiles(ranks, isk, junk) ==
  Const("get_quantiles", isk, ranks, get_quantiles(sketches_, d_, ranks, isk, junk))

GetRanks(values, isk, junk) ==
  Const("get_ranks", isk, values, get_ranks(sketches_, d_, values, isk, junk))

GetPmf(split_points, isk, junk) ==
  Const("get_pmf", isk, split_points, get_pmf(sketches_, d_, split_points, isk, junk))

GetCdf(split_points, isk, junk) ==
  Const("get_cdf", isk, split_points, get_cdf(sketches_, d_, split_points, isk, junk))

Serialize(isk, junk) ==
  Const("serialize", isk, <<>>, serialize(sketches_, d_, isk, junk))

\* The per-channel queries, each with what the caller finds in the array.
IsEmpty(seen) == Const("is_empty", <<>>, <<>>, is_empty(sketches_, seen))
GetN(seen) == Const("get_n", <<>>, <<>>, get_n(sketches_, seen))
GetNumRetained(seen) == Const("get_num_retained", <<>>, <<>>, get_num_retained(sketches_, seen))
IsEstimationMode(seen) == Const("is_estimation_mode", <<>>, <<>>, is_estimation_mode(sketches_, seen))
GetMinValues(seen) == Const("get_min_values", <<>>, <<>>, get_min_values(sketches_, seen))
GetMaxValues(seen) == Const("get_max_values", <<>>, <<>>, get_max_values(sketches_, seen))

\* The per-channel queries, with what the caller finds drawn from flags for
\* the arrays of flags and from numbers for the arrays of numbers.
PerChannel(flags, numbers) ==
  \/ \E seen \in flags : IsEmpty(seen)
  \/ \E seen \in numbers : GetN(seen)
  \/ \E seen \in numbers : GetNumRetained(seen)
  \/ \E seen \in flags : IsEstimationMode(seen)
  \/ \E seen \in numbers : GetMinValues(seen)
  \/ \E seen \in numbers : GetMaxValues(seen)

GetK == Const("get_k", <<>>, <<>>, leaves_sketches(sketches_, Gives(get_k(k_))))
GetD == Const("get_d", <<>>, <<>>, leaves_sketches(sketches_, Gives(get_d(d_))))
ToStr(print_levels, print_items) ==
  Const("to_string", <<>>, <<print_levels, print_items>>,
        to_string(sketches_, print_levels, print_items))

\* The caller keeps the blob of a serialize({i}) that has just returned.
Keep ==
  /\ ret.op = "serialize" /\ ret.status = "ok"
  /\ Len(ret.isk) = 1 /\ ret.isk[1] >= 0 /\ ret.isk[1] < d_
  /\ saved' = [held |-> TRUE, i |-> ret.isk[1], bytes |-> ret.out[1],
               at |-> sketches_[ret.isk[1] + 1]]
  /\ UNCHANGED <<live, k_, d_, sketches_, ret, collapsed>>

\* The caller keeps the sketch the last collapse returned: collapse returns
\* its local result by value, so what the caller holds is a sketch of its own.
KeepCollapsed ==
  /\ ret.op = "collapse" /\ ret.status = "ok"
  /\ collapsed' = [held |-> TRUE, sk |-> ret.out]
  /\ UNCHANGED <<live, k_, d_, sketches_, ret, saved>>

\* The reads past the end a selector can cause happen only for some
\* selectors; elsewhere one junk stands for all.
JunksFor(op, isk) ==
  IF Len(isk) > d_ \/ (Len(isk) = 1 /\ isk[1] # -1 /\ (isk[1] < 0 \/ isk[1] >= d_))
    THEN Junks(op) ELSE {"fault"}

\* The two __init__ of the binding.
Constructors ==
  \/ \E k \in Ks : \E d \in 0..MaxD : Construct(k, d)
  \/ \E other \in Others(DEFAULT_K) : CopyConstruct(other)

Mutators ==
  \/ Constructors
  \/ \E items \in Items(d_, MaxN - Total(sketches_)) :
       \E g \in Extents(items) : Update(items, g)
  \/ \E other \in Others(k_) : Merge(other)
  \/ \E b \in Blobs(k_) : \E idx \in 0..MaxD : Deserialize(b, idx)

Queries ==
  \/ \E ranks \in RankVecs : \E isk \in Selectors : \E junk \in JunksFor("get_quantiles", isk) :
       GetQuantiles(ranks, isk, junk)
  \/ \E values \in ValueVecs : \E isk \in Selectors : \E junk \in JunksFor("get_ranks", isk) :
       GetRanks(values, isk, junk)
  \/ \E sp \in SplitVecs : \E isk \in Selectors : \E junk \in JunksFor("get_pmf", isk) :
       GetPmf(sp, isk, junk)
  \/ \E sp \in SplitVecs : \E isk \in Selectors : \E junk \in JunksFor("get_cdf", isk) :
       GetCdf(sp, isk, junk)
  \/ \E isk \in Selectors : \E junk \in JunksFor("serialize", isk) : Serialize(isk, junk)
  \/ PerChannel(Seen(d_, StrayFlags), Seen(d_, StrayNumbers))
  \/ GetK \/ GetD
  \/ \E pl \in BOOLEAN : \E pi \in BOOLEAN : ToStr(pl, pi)

\* Every operation of the container: those the binding exposes, and the
\* move constructor of the class.  (The two operator= assign to the const
\* members k_ and d_ and cannot be instantiated: they are no step.)
Next ==
  \/ Mutators
  \/ \E other \in Others(DEFAULT_K) : MoveConstruct(other)
  \/ Queries
  \/ \E isk \in Selectors : \E junk \in JunksFor("collapse", isk) : Collapse(isk, junk)

Spec == Init /\ [][Next]_vars

\* The operations that change the container, and collapse of all channels.
NextCore ==
  \/ Mutators
  \/ \E isk \in FullLists \cup {<<-1>>} : \E junk \in JunksFor("collapse", isk) :
       Collapse(isk, junk)

SpecCore == Init /\ [][NextCore]_vars

\* The index resolver, applied to every selector on a fresh container.
NextIdx ==
  \/ Constructors
  \/ \E isk \in Selectors : GetIndices(isk)
  \/ \E isk \in Selectors : \E junk \in JunksFor("serialize", isk) : Serialize(isk, junk)
  \/ \E isk \in Selectors : \E junk \in JunksFor("collapse", isk) : Collapse(isk, junk)

SpecIdx == Init /\ [][NextIdx]_vars

\* The serialize round trip: the caller keeps a blob, updates and merges
\* (with row-major arrays and containers of its own width), and hands the
\* blob back.
NextRT ==
  \/ Constructors
  \/ \E items \in {a \in Items(d_, MaxN - Total(sketches_)) :
                     a.order = "C" /\ a.ndim \in {1, 2}} : Update(items, 0)
  \/ \E other \in {o \in Others(k_) : o.d = d_} : Merge(other)
  \/ \E i \in 0..MaxD : \E junk \in JunksFor("serialize", <<i>>) : Serialize(<<i>>, junk)
  \/ Keep
  \/ saved.held /\ \E idx \in 0..MaxD : Deserialize(saved.bytes, idx)

SpecRT == Init /\ [][NextRT]_vars

\* A selector of each kind: all channels, one index past the end, and a
\* pair with an index past the end.
FewSelectors == {<<-1>>, <<MaxD>>, <<0, MaxD>>}

\* The read-only operations, with selectors drawn from sels and what the
\* caller of a per-channel query finds drawn from flags and numbers.
ReadOnly(sels, flags, numbers) ==
  \/ \E isk \in sels :
       \/ \E ranks \in RankVecs : \E junk \in JunksFor("get_quantiles", isk) :
            GetQuantiles(ranks, isk, junk)
       \/ \E values \in ValueVecs : \E junk \in JunksFor("get_ranks", isk) :
            GetRanks(values, isk, junk)
       \/ \E sp \in SplitVecs : \E junk \in JunksFor("get_pmf", isk) :
            GetPmf(sp, isk, junk)
       \/ \E sp \in SplitVecs : \E junk \in JunksFor("get_cdf", isk) :
            GetCdf(sp, isk, junk)
       \/ \E junk \in JunksFor("serialize", isk) : Serialize(isk, junk)
       \/ \E junk \in JunksFor("collapse", isk) : Collapse(isk, junk)
  \/ PerChannel(flags, numbers)
  \/ GetK \/ GetD
  \/ ToStr(FALSE, FALSE)

\* Every operation: updates with row-major arrays of at most one row (one
\* array of each shape that is rejected), merges
\* of containers of the same width or of width 1, deserialize at the first
\* and the last channel and past the end, the read-only operations with a
\* few selectors.
NextAll ==
  \/ Constructors
  \/ \E items \in {a \in Items(d_, MaxN - Total(sketches_)) :
                     /\ a.order = "C"
                     /\ a.ndim = 2 => a.shape[1] <= 1
                     /\ (a.ndim \in {1, 2} /\ a.shape[a.ndim] # d_) =>
                          \A p \in 1..Len(a.data) : a.data[p] = 1} :
       \E g \in Extents(items) : Update(items, g)
  \/ \E other \in {o \in Others(k_) : o.d \in {d_, 1}} : Merge(other)
  \/ \E b \in Blobs(k_) : \E idx \in {0, d_ - 1, MaxD} : Deserialize(b, idx)
  \/ ReadOnly(FewSelectors, Seen(d_, StrayFlags), Seen(d_, StrayNumbers))

SpecAll == Init /\ [][NextAll]_vars

\* The read-only operations on a container built with (k, d) that takes one
\* row of 1s at a time (of any length, so that rows of another length are
\* rejected), merges containers of its width that hold a 1 in every channel
\* and has its first channel reset from the image of an empty sketch (or
\* the reset rejected, at idx = MaxD), with an
\* accepted selector, a selector accepted though it is out of range and a
\* rejected one, while the caller keeps the first collapsed sketch it
\* chooses to keep.
NextFrame ==
  \/ \E k \in Ks : \E d \in 0..MaxD : Construct(k, d)
  \/ \E items \in {a \in Items(d_, MaxN - Total(sketches_)) :
                     /\ a.order = "C" /\ a.ndim = 1
                     /\ \A p \in 1..Len(a.data) : a.data[p] = 1} :
       Update(items, 0)
  \/ \E other \in {o \in Others(k_) :
                     o.d = d_ /\ \A i \in 1..o.d : o.sketches[i].items = <<1>>} :
       Merge(other)
  \/ \E idx \in {0, MaxD} : Deserialize(kll_serialize(kll_sketch(k_)), idx)
  \/ ReadOnly(FewSelectors, Seen(d_, StrayFlags), Seen(d_, StrayNumbers))
  \/ ~collapsed.held /\ KeepCollapsed

SpecFrame == Init /\ [][NextFrame]_vars

\* ------------------------------------------------------------------- claims
\* resolve(isk, d) as the specification states it, over plain integers: the
\* selector is valid when it is [-1] or all its elements lie in [0, d).
Valid(isk, d) == isk = <<-1>> \/ \A i \in 1..Len(isk) : 0 <= isk[i] /\ isk[i] < d
Resolve(isk, d) == IF isk = <<-1>> THEN [i \in 1..d |-> i - 1] ELSE isk

\* What the read-only queries of one sketch answer.
RankPts == {<<0, 1>>, <<1, 2>>, <<1, 1>>}
Answers(s) ==
  [n |-> kll_get_n(s), empty |-> kll_is_empty(s),
   retained |-> kll_get_num_retained(s), estimation |-> kll_is_estimation_mode(s),
   min |-> kll_get_min_item(s), max |-> kll_get_max_item(s),
   quantile |-> [r \in RankPts |-> kll_get_quantile(s, r)],
   rank |-> [v \in Values |-> kll_get_rank(s, v)]]

BulkOps == {"get_quantiles", "get_ranks", "get_pmf", "get_cdf"}

\* C1: collapse(isk) with a valid selector returns a fresh sketch of the
\* container's k merged with exactly the sketches S[i], i in resolve(isk, d),
\* in selector order; so collapse([-1]) holds the items of all d channels
\* and its n is the sum of the channels' n.
C1_CollapseMergesSelected ==
  (ret.op = "collapse" /\ Valid(ret.isk, d_)) =>
     /\ ret.status = "ok"
     /\ ret.out = merge_all(kll_sketch(k_),
                    [r \in 1..Len(Resolve(ret.isk, d_)) |->
                       sketches_[Resolve(ret.isk, d_)[r] + 1]])
     /\ ret.isk = <<-1>> => kll_get_n(ret.out) = Total(sketches_)

\* The standalone answer of sketch s to the j-th query point of a bulk query.
Standalone(op, s, arg) ==
  IF op = "get_quantiles"
    THEN [j \in 1..Len(arg) |-> kll_get_quantile(s, arg[j]).v]
  ELSE IF op = "get_ranks"
    THEN [j \in 1..Len(arg) |-> kll_get_rank(s, arg[j]).v]
  ELSE IF op = "get_pmf" THEN kll_get_PMF(s, arg).v
  ELSE IF op = "get_cdf" THEN kll_get_CDF(s, arg).v
  ELSE kll_serialize(s)

\* C2: a bulk query (or serialize) with a valid selector that resolves to m
\* indices returns exactly m rows, with one column per query point (s + 1
\* for get_pmf and get_cdf), and row r is the standalone answer of sketch
\* S[resolve(isk, d)[r]], column j answering the j-th query point.
C2_BulkRowsMatchStandalone ==
  (ret.op \in BulkOps \cup {"serialize"} /\ ret.status = "ok" /\ Valid(ret.isk, d_)) =>
     LET inds == Resolve(ret.isk, d_)
     IN  /\ Len(ret.out) = Len(inds)
         /\ \A r \in 1..Len(inds) :
              /\ ret.op \in {"get_quantiles", "get_ranks"} =>
                   Len(ret.out[r]) = Len(ret.arg)
              /\ ret.op \in {"get_pmf", "get_cdf"} =>
                   Len(ret.out[r]) = Len(ret.arg) + 1
              /\ ret.out[r] = Standalone(ret.op, sketches_[inds[r] + 1], ret.arg)

\* C4: resolve(isk, d) fails or returns indices that all lie in [0, d), so no
\* bulk query and no serialize reads a sketch outside S[0..d).
C4_ResolvedInRange ==
  /\ (ret.op = "get_indices" /\ ret.status = "ok") =>
        \A i \in 1..Len(ret.out) : InRange(sketches_, ret.out[i])
  /\ (ret.op \in BulkOps \cup {"serialize"} /\ ret.status # "invalid_argument") =>
        \A i \in 1..Len(get_indices(ret.isk, d_).inds) :
           InRange(sketches_, get_indices(ret.isk, d_).inds[i])

\* C5: for a selector of more than one element, resolve succeeds exactly when
\* every element v has 0 <= v < d, and then returns the elements unchanged,
\* in order, duplicates kept; otherwise it fails with invalid-argument and
\* returns no index.  resolve([-1], d) returns [0, 1, ..., d - 1].
C5_ResolveMany ==
  ret.op = "get_indices" =>
     /\ Len(ret.isk) > 1 =>
          /\ ret.status = "ok" <=>
               \A i \in 1..Len(ret.isk) : 0 <= ret.isk[i] /\ ret.isk[i] < d_
          /\ ret.status = "ok" =>
               /\ Len(ret.out) = Len(ret.isk)
               /\ \A i \in 1..Len(ret.isk) :
                    ret.out[i].hi = 0 /\ ret.out[i].lo = ret.isk[i]
          /\ ret.status # "ok" => ret.status = "invalid_argument" /\ ret.out = <<>>
     /\ ret.isk = <<-1>> =>
          /\ ret.status = "ok"
          /\ Len(ret.out) = d_
          /\ \A i \in 1..d_ : ret.out[i].hi = 0 /\ ret.out[i].lo = i - 1

\* C5's case: a two-element selector with a repeated, in-range element has
\* been resolved.
C5_Witness ==
  /\ ret.op = "get_indices" /\ ret.status = "ok"
  /\ Len(ret.isk) = 2 /\ ret.isk[1] = ret.isk[2] /\ ret.isk[1] = d_ - 1 /\ d_ = 2

\* C3: a rejected request (construction with d = 0, an update whose last axis
\* is not d or whose array has more than 2 axes, a deserialize at idx >= d,
\* a merge of a container of another width) fails with invalid-argument and
\* leaves every sketch as it was before the call.
C3_RejectedLeavesUnchanged ==
  /\ (ret.op = "construct" /\ ret.arg[2] = 0) =>
        ret.status = "invalid_argument" /\ ~live /\ sketches_ = ret.pre
  /\ (ret.op = "update" /\ ret.arg.ndim >= 1
        /\ (ret.arg.shape[ret.arg.ndim] # d_ \/ ret.arg.ndim > 2)) =>
        ret.status = "invalid_argument" /\ sketches_ = ret.pre
  /\ (ret.op = "deserialize" /\ ret.arg[2] >= d_) =>
        ret.status = "invalid_argument" /\ sketches_ = ret.pre
  /\ (ret.op = "merge" /\ ret.arg.d # d_) =>
        ret.status = "invalid_argument" /\ sketches_ = ret.pre

\* C3's case: a container that holds items has rejected a merge of a
\* container of another width whose sketches hold items.
C3_Witness ==
  /\ ret.op = "merge" /\ ret.arg.d # d_ /\ ret.status = "invalid_argument"
  /\ \A i \in 1..d_ : sketches_[i].items # <<>>
  /\ ret.arg.sketches[1].items # <<>>

\* Column j (0-based) of a 2-D input, top row first.
Column(items, j) ==
  [i \in 1..items.shape[1] |-> items.data[(i - 1) * items.shape[2] + j + 1]]

\* The arrays get_n() can hand back for the sketches sk, and the arrays
\* is_empty() can.
GetNAnswers(sk) ==
  {get_n(sk, seen).out :
     seen \in {s \in Seen(Len(sk), StrayNumbers) : get_n(sk, s).status = "ok"}}
IsEmptyAnswers(sk) ==
  {is_empty(sk, seen).out :
     seen \in {s \in Seen(Len(sk), StrayFlags) : is_empty(sk, s).status = "ok"}}

\* C6: a successful update with a 2-D array of shape (n, d) adds exactly n to
\* get_n()[j] of every channel j, and S[j] receives the values of column j
\* and no others, top row first; with a 1-D array of length d every channel
\* j gains 1 and receives element j.  get_n()[j] is what a call of get_n()
\* answers, before the update and after it.
C6_UpdateRoutesColumns ==
  (ret.op = "update" /\ ret.status = "ok") =>
     \A j \in 1..d_ :
        /\ ret.arg.ndim = 2 =>
             /\ \A before \in GetNAnswers(ret.pre) :
                  \A after \in GetNAnswers(sketches_) :
                     after[j] = before[j] + ret.arg.shape[1]
             /\ sketches_[j] = kll_update_all(ret.pre[j], Column(ret.arg, j - 1))
        /\ ret.arg.ndim = 1 =>
             /\ \A before \in GetNAnswers(ret.pre) :
                  \A after \in GetNAnswers(sketches_) :
                     after[j] = before[j] + 1
             /\ sketches_[j] = kll_update(ret.pre[j], ret.arg.data[j])

\* C7: after a successful A.merge(B), get_n()[i] of every channel i of A has
\* grown by B's get_n()[i], S[i] of A is its old self merged with B's S[i]
\* (never with another channel), and B's sketches are as they were.
\* get_n()[i] is what a call of get_n() answers, on A before and after the
\* merge and on B.
C7_MergeAddsPositionally ==
  (ret.op = "merge" /\ ret.status = "ok") =>
     /\ ret.out = ret.arg.sketches
     /\ \A i \in 1..d_ :
          /\ \A before \in GetNAnswers(ret.pre) :
               \A added \in GetNAnswers(ret.arg.sketches) :
                  \A after \in GetNAnswers(sketches_) :
                     after[i] = before[i] + added[i]
          /\ sketches_[i] = kll_merge(ret.pre[i], ret.arg.sketches[i])

\* C8: when the blob of serialize([i])[0] is loaded back with
\* deserialize(blob, i), whatever updates and merges came between, S[i]
\* answers every read-only query as it did when the blob was taken, and every
\* other channel is as it was just before the deserialize.
C8_RoundTripRestores ==
  (ret.op = "deserialize" /\ saved.held
     /\ ret.arg[1] = saved.bytes /\ ret.arg[2] = saved.i) =>
     /\ ret.status = "ok"
     /\ Answers(sketches_[saved.i + 1]) = Answers(saved.at)
     /\ sketches_[saved.i + 1].k = saved.at.k
     /\ \A j \in 1..d_ : j # saved.i + 1 => sketches_[j] = ret.pre[j]

\* C8's case: channel 1 of a two-channel container was serialized while it
\* held items, changed afterwards, and has been restored from the blob while
\* channel 0 holds items.
C8_Witness ==
  /\ ret.op = "deserialize" /\ ret.status = "ok" /\ d_ = 2
  /\ saved.held /\ saved.i = 1 /\ ret.arg = <<saved.bytes, saved.i>>
  /\ Len(saved.at.items) >= 2
  /\ ret.pre[2] # saved.at
  /\ sketches_[1].items # <<>>

\* The items of all channels, one channel after the other.
RECURSIVE AllItems(_)
AllItems(sk) == IF sk = <<>> THEN <<>> ELSE Head(sk).items \o AllItems(Tail(sk))

\* The least and the greatest item over the non-empty channels.
Least(sk) ==
  LET all == AllItems(sk)
  IN  CHOOSE x \in {all[q] : q \in 1..Len(all)} : \A q \in 1..Len(all) : x <= all[q]
Greatest(sk) ==
  LET all == AllItems(sk)
  IN  CHOOSE x \in {all[q] : q \in 1..Len(all)} : \A q \in 1..Len(all) : x >= all[q]

\* C9: collapse([0, 1, ..., d - 1]) answers every read-only query as one
\* sketch of the container's k fed the union of all d channels' streams: its
\* n is the sum of the channels' n, and when some channel holds items its
\* minimum is the least and its maximum the greatest item of any channel.
C9_CollapseAllIsUnion ==
  (ret.op = "collapse" /\ ret.isk = [i \in 1..d_ |-> i - 1]) =>
     /\ ret.status = "ok"
     /\ ret.out.k = k_
     /\ Answers(ret.out) = Answers(kll_update_all(kll_sketch(k_), AllItems(sketches_)))
     /\ kll_get_n(ret.out) = Total(sketches_)
     /\ Total(sketches_) > 0 =>
          /\ kll_get_min_item(ret.out) = Returned(Least(sketches_))
          /\ kll_get_max_item(ret.out) = Returned(Greatest(sketches_))

\* C9's case: both channels of a two-channel container hold items, the
\* second an item the first lacks, and collapse([0, 1]) has been answered.
C9_Witness ==
  /\ ret.op = "collapse" /\ ret.isk = <<0, 1>> /\ d_ = 2 /\ ret.status = "ok"
  /\ sketches_[1].items # <<>> /\ sketches_[2].items # <<>>
  /\ Greatest(sketches_) > sketches_[1].items[Len(sketches_[1].items)]

\* The values a sequence of update calls hands to sketch j, in call order.
RECURSIVE Delivered(_, _)
Delivered(calls, j) ==
  IF calls = <<>> THEN <<>>
  ELSE IF Head(calls)[1] = j THEN <<Head(calls)[2]>> \o Delivered(Tail(calls), j)
  ELSE Delivered(Tail(calls), j)

\* C10: for one 2-D input the column-major and the row-major traversal hand
\* every sketch S[j] the same values in the same row order, so containers in
\* the same state updated through either end in the same state: the state
\* the update has left.
C10_TraversalsAgree ==
  (ret.op = "update" /\ ret.status = "ok" /\ ret.arg.ndim = 2) =>
     /\ \A j \in 0..(d_ - 1) :
          Delivered(calls_F(ret.arg, d_), j) = Delivered(calls_C(ret.arg, d_), j)
     /\ apply_updates(ret.pre, calls_F(ret.arg, d_)) = sketches_
     /\ apply_updates(ret.pre, calls_C(ret.arg, d_)) = sketches_

\* C10's case: a two-channel container has taken a 2 x 2 array, stored
\* column-major, that is not symmetric.
C10_Witness ==
  /\ ret.op = "update" /\ ret.status = "ok" /\ d_ = 2
  /\ ret.arg.ndim = 2 /\ ret.arg.order = "F" /\ ret.arg.shape = <<2, 2>>
  /\ ret.arg.data[2] # ret.arg.data[3]

\* The sketches after a step sit where they sat before it: an update or a
\* merge only adds items to the sketch at each position, a deserialize
\* replaces the sketch at its idx alone, every other call changes none.
Copies(s, v) == Cardinality({p \in 1..Len(s.items) : s.items[p] = v})
SamePositions ==
  /\ ret'.op \in {"update", "merge"} =>
       \A j \in 1..d_ :
          /\ sketches_'[j].k = sketches_[j].k
          /\ \A v \in Values : Copies(sketches_'[j], v) >= Copies(sketches_[j], v)
  /\ ret'.op = "deserialize" =>
       \A j \in 1..d_ : j # ret'.arg[2] + 1 => sketches_'[j] = sketches_[j]
  /\ ret'.op \notin {"update", "merge", "deserialize"} => sketches_' = sketches_

\* What C11 says of one state of a constructed container; is_empty() and
\* get_n() are what a call of them answers.
C11_Width ==
  live =>
     /\ Len(sketches_) = d_
     /\ get_d(d_) = d_ /\ get_k(k_) = k_
     /\ (ret.op = "construct" /\ ret.status = "ok") =>
          /\ k_ = ret.arg[1] /\ d_ = ret.arg[2]
          /\ \A a \in IsEmptyAnswers(sketches_) : a = [i \in 1..ret.arg[2] |-> TRUE]
          /\ \A a \in GetNAnswers(sketches_) : a = [i \in 1..ret.arg[2] |-> 0]
     /\ ret.op = "get_d" => ret.out = d_
     /\ ret.op = "get_k" => ret.out = k_

\* What C11 says of one step of a constructed container.
C11_Step == live => live' /\ k_' = k_ /\ d_' = d_ /\ SamePositions

\* C11: from a successful construction with (k, d) on, whatever calls follow
\* and however they end, the container holds exactly d sketches in their
\* original positions, get_d() returns the constructor's d and get_k() the
\* constructor's k; right after construction is_empty() is all-true and
\* get_n() all-zero over the d channels.
C11_WidthAndKConstant == []C11_Width /\ [][C11_Step]_vars

ReadOnlyOps ==
  {"is_empty", "get_n", "get_num_retained", "get_min_values", "get_max_values",
   "is_estimation_mode", "get_quantiles", "get_ranks", "get_pmf", "get_cdf",
   "to_string", "serialize", "collapse"}

\* What C12 says of one step: a read-only call, however it ends, changes no
\* sketch, and a call that changes the container changes no collapsed sketch
\* the caller holds.
C12_Step ==
  /\ ret'.op \in ReadOnlyOps => sketches_' = sketches_
  /\ (collapsed.held /\ ret'.op \in {"update", "merge", "deserialize"}) =>
        collapsed' = collapsed

\* C12: every read-only operation, whether it succeeds or fails on selector
\* validation, leaves all d sketches of the container unchanged; the sketch
\* collapse returned is detached, so later update, merge and deserialize
\* calls on the container do not change it.
C12_ReadOnlyAndDetached == [][C12_Step]_vars

\* C12's case: the caller holds a collapsed sketch with items, the first
\* channel has since gained items, and a serialize with a one-element
\* selector past the end has been accepted and has returned the image of a
\* stray object.
C12_Witness ==
  /\ collapsed.held /\ collapsed.sk.items # <<>>
  /\ Len(sketches_[1].items) > Len(collapsed.sk.items)
  /\ ret.op = "serialize" /\ ret.isk = <<MaxD>> /\ ret.status = "stray"

====
